---------------------------- MODULE Spec2Model ----------------------------
(***************************************************************************)
(* Model of scripts/initializers/pdp.js: the product-detail-page           *)
(* initializer.  The module holds                                          *)
(*   - a small layer of JavaScript values (undefined, null, strings,       *)
(*     objects and arrays with identity) and the language operations the   *)
(*     script uses on them (optional chaining, truthiness, spread);        *)
(*   - the script's functions as operators: toVimeoEmbedUrl,               *)
(*     fetchProductDataWithVideos, extractMainImageUrl, preloadPDPAssets,  *)
(*     the model transformer and preloadImageMiddleware;                   *)
(*   - the initializeDropin callback as a state machine (Spec): the        *)
(*     synchronous statements in program order, the two promises joined by *)
(*     Promise.all, the branch on the product and the hand-off;            *)
(*   - a second specification (SpecPure) that draws an argument from a     *)
(*     bounded set and applies one of the pure functions to it.            *)
(*                                                                         *)
(* A string is the sequence of its characters.                             *)
(***************************************************************************)
EXTENDS Integers, Sequences, FiniteSets, TLC

VARIABLES
    \* ---- SpecPure: one call of a pure function
    fn,          \* which function is called
    arg,         \* its argument
    ret,         \* [done |-> FALSE] or [done |-> TRUE, val |-> the value returned]
    \* ---- Spec: one page load
    pc,          \* position of the initializeDropin callback
    trace,       \* the calls to collaborators, in the order they were made
    doc,         \* the page: its JSON-LD scripts and its meta tags
    preloads,    \* the preloadFile(href, as) calls made so far
    env,         \* what the collaborators return: URL sku, URL options, flag, responses
    sku,         \* local `sku` (line 146)
    optionsUIDs, \* local `optionsUIDs` (line 147)
    prodTask,    \* the promise fetchProductDataWithVideos(...).then(preloadImageMiddleware)
    phTask,      \* the promise fetchPlaceholders(...)
    settled,     \* the two promises, in the order they settled
    mw,          \* what preloadImageMiddleware was given, looked at and rendered
    product,     \* local `product` (line 149)
    labels,      \* local `labels` (line 149)
    mounts,      \* the configurations passed to initializers.mountImmediately
    errorPages,  \* number of loadErrorPage calls
    transformed  \* results of the framework's calls of models.ProductDetails.transformer

pureVars == <<fn, arg, ret>>
pageVars == <<pc, trace, doc, preloads, env, sku, optionsUIDs, prodTask, phTask,
              settled, mw, product, labels, mounts, errorPages, transformed>>
vars == <<fn, arg, ret, pc, trace, doc, preloads, env, sku, optionsUIDs, prodTask,
          phTask, settled, mw, product, labels, mounts, errorPages, transformed>>

-----------------------------------------------------------------------------
(* JavaScript values *)

Undefined == [t |-> "undefined"]
Null == [t |-> "null"]
Str(s) == [t |-> "string", s |-> s]
Bool(b) == [t |-> "boolean", b |-> b]
Num(n) == [t |-> "number", n |-> n]
\* An object or an array is its identity (ref) and its contents.  An object the
\* script creates carries FreshRef; the objects the script is given carry others.
Obj(ref, f) == [t |-> "object", ref |-> ref, f |-> f]
Arr(ref, items) == [t |-> "array", ref |-> ref, items |-> items]
FreshRef == "fresh"

NoFields == <<>>

\* JavaScript truthiness (ToBoolean).
Truthy(v) ==
    CASE v.t = "undefined" -> FALSE
      [] v.t = "null" -> FALSE
      [] v.t = "string" -> v.s # <<>>
      [] v.t = "boolean" -> v.b
      [] v.t = "number" -> v.n # 0
      [] OTHER -> TRUE

IsNullish(v) == v.t \in {"undefined", "null"}

\* o?.k : undefined when o is null or undefined or has no property k.
Get(o, k) ==
    IF o.t = "object" /\ k \in DOMAIN o.f THEN o.f[k] ELSE Undefined

\* a?.[i] for a zero-based index i.
At(a, i) ==
    IF a.t = "array" /\ i + 1 \in DOMAIN a.items THEN a.items[i + 1] ELSE Undefined

\* a.length (undefined for a value that has none).
Length(a) ==
    CASE a.t = "array" -> Num(Len(a.items))
      [] a.t = "string" -> Num(Len(a.s))
      [] OTHER -> Undefined

\* a || b
Or(a, b) == IF Truthy(a) THEN a ELSE b

\* { ...a, ...b } for field maps: b's fields override a's.
Spread(a, b) ==
    [k \in DOMAIN a \cup DOMAIN b |-> IF k \in DOMAIN b THEN b[k] ELSE a[k]]

\* The own fields an object spread copies ({...null} and {...undefined} are {}).
FieldsOf(v) == IF v.t = "object" THEN v.f ELSE NoFields

\* [...a] : the elements of an array.
ItemsOf(v) == IF v.t = "array" THEN v.items ELSE <<>>

-----------------------------------------------------------------------------
(* Strings *)

Digits == {"0", "1", "2", "3", "4", "5", "6", "7", "8", "9"}
Alphas == {"a", "b", "c", "d", "e", "f", "g", "h", "i", "j", "k", "l", "m",
           "n", "o", "p", "q", "r", "s", "t", "u", "v", "w", "x", "y", "z"}

IsPrefix(p, s) == Len(p) <= Len(s) /\ SubSeq(s, 1, Len(p)) = p
Drop(s, n) == SubSeq(s, n + 1, Len(s))

\* Index of the first character of s that lies in set C, or Len(s) + 1.
FirstIn(s, C) ==
    IF \E i \in 1..Len(s) : s[i] \in C
    THEN CHOOSE i \in 1..Len(s) : s[i] \in C /\ \A j \in 1..(i - 1) : s[j] \notin C
    ELSE Len(s) + 1

\* /^\d+$/.test(s)
AllDigits(s) == s # <<>> /\ \A i \in 1..Len(s) : s[i] \in Digits

DigitVal(c) == CHOOSE d \in 0..9 : ToString(d) = c

\* s without its leading "0"s.
StripZeros(s) ==
    Drop(s, FirstIn(s, {c \in {s[j] : j \in 1..Len(s)} : c # "0"}) - 1)

\* a < b as decimal numbers, for strings of digits of any length.
DecLess(a, b) ==
    LET x == StripZeros(a)
        y == StripZeros(b)
    IN  \/ Len(x) < Len(y)
        \/ /\ Len(x) = Len(y)
           /\ \E i \in 1..Len(x) :
                 /\ SubSeq(x, 1, i - 1) = SubSeq(y, 1, i - 1)
                 /\ DigitVal(x[i]) < DigitVal(y[i])

\* s split at every occurrence of character c (String.prototype.split).
RECURSIVE Split(_, _)
Split(s, c) ==
    LET i == FirstIn(s, {c})
    IN  IF i > Len(s) THEN <<s>>
        ELSE <<SubSeq(s, 1, i - 1)>> \o Split(Drop(s, i), c)

\* String(v) for the values a video's url field takes in the model.
ToStr(v) ==
    CASE v.t = "string" -> v.s
      [] v.t = "undefined" -> <<"u", "n", "d", "e", "f", "i", "n", "e", "d">>
      [] v.t = "null" -> <<"n", "u", "l", "l">>

-----------------------------------------------------------------------------
(* new URL(url), without a base: the WHATWG basic URL parser, for strings   *)
(* that hold no whitespace, upper-case letter, "\", "@", "%", "[" and no    *)
(* "." or ".." path segment, and whose scheme is not "file".  The result is *)
(* [ok |-> FALSE] (the constructor throws TypeError) or [ok |-> TRUE,       *)
(* pathname |-> the URL's pathname].                                        *)

SpecialSchemes ==
    { <<"h", "t", "t", "p">>, <<"h", "t", "t", "p", "s">>, <<"f", "t", "p">>,
      <<"w", "s">>, <<"w", "s", "s">> }

SchemeChars == Alphas \cup Digits \cup {"+", "-", "."}

\* scheme start state and scheme state: the position of the ":" that ends the
\* scheme, or 0 when the string has no scheme (no base: failure).
SchemeColon(s) ==
    LET i == FirstIn(s, {c \in {s[j] : j \in 1..Len(s)} : c \notin SchemeChars})
    IN  IF s # <<>> /\ s[1] \in Alphas /\ i <= Len(s) /\ s[i] = ":" THEN i ELSE 0

\* The IPv4 parser on the dot-separated parts of a host that ends in a number
\* (parts are decimal: the model's digits never spell an octal or hex number).
IPv4OK(host) ==
    LET raw == Split(host, ".")
        parts == IF Len(raw) > 1 /\ raw[Len(raw)] = <<>>
                 THEN SubSeq(raw, 1, Len(raw) - 1) ELSE raw
        n == Len(parts)
        \* 256^4, 256^3, 256^2, 256: the bound on the last part of n parts
        limit == << <<"4", "2", "9", "4", "9", "6", "7", "2", "9", "6">>,
                    <<"1", "6", "7", "7", "7", "2", "1", "6">>,
                    <<"6", "5", "5", "3", "6">>,
                    <<"2", "5", "6">> >>
    IN  /\ n <= 4
        /\ \A i \in 1..n : AllDigits(parts[i])
        /\ \A i \in 1..(n - 1) : DecLess(parts[i], <<"2", "5", "6">>)
        /\ DecLess(parts[n], limit[n])

\* "ends in a number": the last non-empty label is all digits.
EndsInNumber(host) ==
    LET raw == Split(host, ".")
        parts == IF Len(raw) > 1 /\ raw[Len(raw)] = <<>>
                 THEN SubSeq(raw, 1, Len(raw) - 1) ELSE raw
    IN  AllDigits(parts[Len(parts)])

\* host state, host parsing and port state on an authority (no credentials).
AuthorityOK(auth, special) ==
    LET c == FirstIn(auth, {":"})
        host == SubSeq(auth, 1, c - 1)
        port == Drop(auth, c)
    IN  /\ c <= Len(auth) => host # <<>>
        /\ special => host # <<>>
        /\ (special /\ EndsInNumber(host)) => IPv4OK(host)
        /\ c <= Len(auth) =>
              \/ port = <<>>
              \/ AllDigits(port) /\ DecLess(port, <<"6", "5", "5", "3", "6">>)

ParseURL(s) ==
    LET colon == SchemeColon(s)
        scheme == SubSeq(s, 1, colon - 1)
        special == scheme \in SpecialSchemes
        rest == Drop(s, colon)
        \* special authority slashes / ignore slashes states: every leading "/"
        \* of a special URL is skipped before the authority
        skip == FirstIn(rest, {c \in {rest[j] : j \in 1..Len(rest)} : c # "/"})
        hasAuth == special \/ IsPrefix(<<"/", "/">>, rest)
        afterSlashes == IF special THEN Drop(rest, skip - 1)
                        ELSE IF hasAuth THEN Drop(rest, 2) ELSE rest
        authEnd == IF hasAuth THEN FirstIn(afterSlashes, {"/", "?", "#"}) ELSE 1
        auth == SubSeq(afterSlashes, 1, authEnd - 1)
        tail == Drop(afterSlashes, authEnd - 1)
        path == SubSeq(tail, 1, FirstIn(tail, {"?", "#"}) - 1)
    IN  IF colon = 0 THEN [ok |-> FALSE]
        ELSE IF hasAuth /\ ~AuthorityOK(auth, special) THEN [ok |-> FALSE]
        ELSE [ok |-> TRUE,
              pathname |-> IF special /\ path = <<>> THEN <<"/">> ELSE path]

\* pathname.split('/').filter(Boolean)[0]
FirstSegment(pathname) ==
    LET segs == Split(pathname, "/")
        nonEmpty == {i \in 1..Len(segs) : segs[i] # <<>>}
    IN  IF nonEmpty = {} THEN Undefined
        ELSE Str(segs[CHOOSE i \in nonEmpty : \A j \in nonEmpty : i <= j])

PlayerPrefix ==
    <<"h", "t", "t", "p", "s", ":", "/", "/", "p", "l", "a", "y", "e", "r", ".",
      "v", "i", "m", "e", "o", ".", "c", "o", "m", "/", "v", "i", "d", "e", "o", "/">>

\* /^\d+$/.test(videoId) for a string videoId
DigitsTest(videoId) == AllDigits(videoId.s)

\* How a call ends: it returns a value or it throws.
Return(v) == [kind |-> "return", val |-> v]
Throw == [kind |-> "throw"]

\* toVimeoEmbedUrl without its try/catch: the TypeError of new URL escapes.
toVimeoEmbedUrl_NoCatch(url) ==
    LET urlObj == ParseURL(ToStr(url))
        videoId == FirstSegment(urlObj.pathname)
    IN  IF ~urlObj.ok THEN Throw
        ELSE IF Truthy(videoId) /\ DigitsTest(videoId)
             THEN Return(Str(PlayerPrefix \o videoId.s))
             ELSE Return(url)

\* toVimeoEmbedUrl(url): the catch block swallows the TypeError of new URL
\* (console.warn) and control falls through to `return url`.
toVimeoEmbedUrl(url) ==
    LET urlObj == ParseURL(ToStr(url))
        videoId == FirstSegment(urlObj.pathname)
    IN  IF ~urlObj.ok THEN Return(url)
        ELSE IF Truthy(videoId) /\ DigitsTest(videoId)
             THEN Return(Str(PlayerPrefix \o videoId.s))
             ELSE Return(url)

-----------------------------------------------------------------------------
(* models.ProductDetails.transformer (lines 169-194) *)

ProductVideoLabel ==
    <<"P", "r", "o", "d", "u", "c", "t", " ", "V", "i", "d", "e", "o">>

\* One element of rawData.videos.map(v => ({url, label, width, height, isVideo})).
VideoAsImage(v) ==
    Obj(FreshRef,
        [url |-> toVimeoEmbedUrl(Get(v, "url")).val,
         label |-> Or(Get(v, "title"), Str(ProductVideoLabel)),
         width |-> Num(640),
         height |-> Num(360),
         isVideo |-> Bool(TRUE)])

\* One element of rawData.videos.map(v => ({url, title, preview})).
NormalizedVideo(v) ==
    Obj(FreshRef,
        [url |-> toVimeoEmbedUrl(Get(v, "url")).val,
         title |-> Get(v, "title"),
         preview |-> IF Truthy(Get(v, "preview"))
                     THEN Obj(FreshRef, [url |-> Get(Get(v, "preview"), "url")])
                     ELSE Null])

\* [...videoAsImages, ...(rawData.images || [])]
GalleryImages(videoAsImages, images) ==
    Arr(FreshRef, videoAsImages \o ItemsOf(Or(images, Arr(FreshRef, <<>>))))

\* The transformer with the guard `!rawData?.videos` (the .length forgotten):
\* an empty videos array no longer passes through.
transformer_NoLength(rawData) ==
    LET videos == Get(rawData, "videos")
    IN  IF ~Truthy(videos) THEN Return(rawData)
        ELSE Return(Obj(FreshRef,
                 Spread(rawData.f,
                        [videos |-> Arr(FreshRef,
                                        [i \in DOMAIN videos.items |->
                                            NormalizedVideo(videos.items[i])]),
                         images |-> GalleryImages(
                                        [i \in DOMAIN videos.items |->
                                            VideoAsImage(videos.items[i])],
                                        Get(rawData, "images"))])))

\* The transformer with the gallery built images first, videos last.
transformer_Appends(rawData) ==
    LET videos == Get(rawData, "videos")
    IN  IF ~Truthy(Length(videos)) THEN Return(rawData)
        ELSE Return(Obj(FreshRef,
                 Spread(rawData.f,
                        [videos |-> Arr(FreshRef,
                                        [i \in DOMAIN videos.items |->
                                            NormalizedVideo(videos.items[i])]),
                         images |-> Arr(FreshRef,
                                        ItemsOf(Or(Get(rawData, "images"),
                                                   Arr(FreshRef, <<>>)))
                                        \o [i \in DOMAIN videos.items |->
                                               VideoAsImage(videos.items[i])])])))

\* transformer(rawData).  A video that is null or undefined makes v.url throw,
\* a truthy images value that is not an array makes the spread throw, and so
\* would a throwing toVimeoEmbedUrl.
transformer(rawData) ==
    LET videos == Get(rawData, "videos")
        images == Get(rawData, "images")
    IN  IF ~Truthy(Length(videos)) THEN Return(rawData)
        ELSE IF \/ videos.t # "array"
                \/ \E i \in DOMAIN videos.items :
                      \/ IsNullish(videos.items[i])
                      \/ toVimeoEmbedUrl(Get(videos.items[i], "url")).kind = "throw"
                \/ Truthy(images) /\ images.t # "array"
        THEN Throw
        ELSE Return(Obj(FreshRef,
                 Spread(rawData.f,
                        [videos |-> Arr(FreshRef,
                                        [i \in DOMAIN videos.items |->
                                            NormalizedVideo(videos.items[i])]),
                         images |-> GalleryImages(
                                        [i \in DOMAIN videos.items |->
                                            VideoAsImage(videos.items[i])],
                                        images)])))

-----------------------------------------------------------------------------
(* extractMainImageUrl (lines 89-110) *)

\* The text of a JSON-LD script is the sequence of its JSON lexemes.  A string
\* lexeme carries the property name it spells and its characters.
Punct(c) == [lex |-> "punct", c |-> c]
NullLex == [lex |-> "null"]
StrLex(name, chars) == [lex |-> "string", name |-> name, s |-> chars]

IsScalarLex(x) == x.lex \in {"string", "null"}
ScalarValue(x) == IF x.lex = "string" THEN Str(x.s) ELSE Null

\* The members between the braces: key ":" scalar, separated by ",".
MembersOK(inner) ==
    /\ Len(inner) % 4 = 3
    /\ \A i \in 1..Len(inner) :
          CASE i % 4 = 1 -> inner[i].lex = "string"
            [] i % 4 = 2 -> inner[i] = Punct(":")
            [] i % 4 = 3 -> IsScalarLex(inner[i])
            [] OTHER -> inner[i] = Punct(",")

\* The object the members spell: a repeated key keeps its last value.
MembersObject(inner) ==
    LET n == (Len(inner) + 1) \div 4
        keys == {inner[4 * m - 3].name : m \in 1..n}
        last(k) == CHOOSE m \in 1..n :
                      /\ inner[4 * m - 3].name = k
                      /\ \A j \in 1..n : inner[4 * j - 3].name = k => j <= m
    IN  Obj(FreshRef, [k \in keys |-> ScalarValue(inner[4 * last(k) - 1])])

\* JSON.parse(text) for texts that hold a scalar or an object of scalars:
\* [ok |-> FALSE] when it throws SyntaxError.
ParseJSON(text) ==
    LET inner == SubSeq(text, 2, Len(text) - 1)
    IN  IF Len(text) = 1 /\ IsScalarLex(text[1])
        THEN [ok |-> TRUE, val |-> ScalarValue(text[1])]
        ELSE IF /\ Len(text) >= 2
                /\ text[1] = Punct("{")
                /\ text[Len(text)] = Punct("}")
                /\ (inner = <<>> \/ MembersOK(inner))
        THEN [ok |-> TRUE,
              val |-> IF inner = <<>> THEN Obj(FreshRef, NoFields)
                      ELSE MembersObject(inner)]
        ELSE [ok |-> FALSE]

\* getMetadata(name) of ../aem.js: the content of the page's meta tag of that
\* name, null when the page has none.
getMetadata(d, name) ==
    IF name \in DOMAIN d.meta THEN d.meta[name] ELSE Null

ProductType == <<"P", "r", "o", "d", "u", "c", "t">>

\* document.querySelector('script[type="application/ld+json"]')?.textContent:
\* the text of the first such script in document order.
JsonLdText(d) == IF d.scripts = <<>> THEN <<>> ELSE d.scripts[1]

\* extractMainImageUrl that trusts the image of any JSON-LD, whatever its @type.
extractMainImageUrl_AnyType(d) ==
    LET meta == Or(getMetadata(d, "og:image"), getMetadata(d, "image"))
        jsonLd == ParseJSON(JsonLdText(d))
    IN  IF JsonLdText(d) = <<>> THEN meta
        ELSE IF ~jsonLd.ok THEN meta
        ELSE IF Truthy(Get(jsonLd.val, "image")) THEN Get(jsonLd.val, "image")
        ELSE meta

extractMainImageUrl(d) ==
    LET meta == Or(getMetadata(d, "og:image"), getMetadata(d, "image"))
        jsonLd == ParseJSON(JsonLdText(d))
    IN  IF JsonLdText(d) = <<>> THEN meta
        ELSE IF ~jsonLd.ok THEN meta       \* catch (error): console.debug
        ELSE IF /\ Get(jsonLd.val, "@type") = Str(ProductType)
                /\ Truthy(Get(jsonLd.val, "image"))
        THEN Get(jsonLd.val, "image")
        ELSE meta

-----------------------------------------------------------------------------
(* fetchProductDataWithVideos (lines 63-78) *)

\* obj with obj.k = v assigned in place: the same object, one field set.
Assign(obj, k, v) == Obj(obj.ref, Spread(obj.f, [x \in {k} |-> v]))

\* The code after `await fetchGraphQl(...)`, with the optionUIDs assignment
\* made unconditionally.
fetchProductDataWithVideos_AlwaysAttach(response, options) ==
    LET found == At(Get(Get(response, "data"), "products"), 0)
    IN  IF IsNullish(response) THEN Throw
        ELSE IF ~Truthy(found) THEN Return(Null)
        ELSE Return(Assign(found, "optionUIDs", Get(options, "optionsUIDs")))

\* The code after `await fetchGraphQl(...)`, given the response it resolved
\* to.  Destructuring `{ data }` of null or undefined throws TypeError.
fetchProductDataWithVideos(response, options) ==
    LET found == At(Get(Get(response, "data"), "products"), 0)
    IN  IF IsNullish(response) THEN Throw
        ELSE IF ~Truthy(found) THEN Return(Null)
        ELSE IF Truthy(Get(options, "optionsUIDs"))
        THEN Return(Assign(found, "optionUIDs", Get(options, "optionsUIDs")))
        ELSE Return(found)

-----------------------------------------------------------------------------
(* preloadPDPAssets (lines 115-136) *)

\* A path literal of the script is kept in one piece: nothing inspects it.
ScriptPaths ==
    << <<"/scripts/__dropins__/storefront-pdp/api.js">>,
       <<"/scripts/__dropins__/storefront-pdp/render.js">>,
       <<"/scripts/__dropins__/storefront-pdp/containers/ProductHeader.js">>,
       <<"/scripts/__dropins__/storefront-pdp/containers/ProductPrice.js">>,
       <<"/scripts/__dropins__/storefront-pdp/containers/ProductShortDescription.js">>,
       <<"/scripts/__dropins__/storefront-pdp/containers/ProductOptions.js">>,
       <<"/scripts/__dropins__/storefront-pdp/containers/ProductQuantity.js">>,
       <<"/scripts/__dropins__/storefront-pdp/containers/ProductDescription.js">>,
       <<"/scripts/__dropins__/storefront-pdp/containers/ProductAttributes.js">>,
       <<"/scripts/__dropins__/storefront-pdp/containers/ProductGallery.js">> >>

\* The preloadFile(href, as) calls of one preloadPDPAssets(), in order.
PreloadCalls(d) ==
    LET imageUrl == extractMainImageUrl(d)
    IN  [i \in DOMAIN ScriptPaths |-> [href |-> Str(ScriptPaths[i]), as |-> "script"]]
        \o (IF Truthy(imageUrl) THEN <<[href |-> imageUrl, as |-> "image"]>>
            ELSE <<>>)        \* else: console.warn

-----------------------------------------------------------------------------
(* preloadImageMiddleware (lines 209-234) *)

IMAGES_SIZES == [width |-> Num(960), height |-> Num(1191)]

HttpScheme == <<"h", "t", "t", "p", ":">>
HttpsScheme == <<"h", "t", "t", "p", "s", ":">>

\* The middleware's replace with the pattern left out: the url as it is.
StripScheme_Keeps(url) == url

\* url?.replace(/^https?:/, '') : undefined for an undefined or null url.
StripScheme(url) ==
    IF IsNullish(url) THEN Undefined
    ELSE IF IsPrefix(HttpsScheme, url.s) THEN Str(Drop(url.s, Len(HttpsScheme)))
    ELSE IF IsPrefix(HttpScheme, url.s) THEN Str(Drop(url.s, Len(HttpScheme)))
    ELSE url

\* data?.images?.[0] : the entry the middleware looks at.
FirstImage(data) == At(Get(data, "images"), 0)

\* The argument of UI.render(Image, ...) for a truthy stripped url `image`.
\* With the flag on, src is tryGenerateAemAssetsOptimizedUrl(image, data.sku, {}),
\* recorded as the call it is.
RenderProps(image, data, aemEnabled) ==
    [src |-> IF aemEnabled
             THEN [optimizedUrlOf |-> image, alias |-> Get(data, "sku")]
             ELSE image,
     params |-> IF aemEnabled
                THEN Spread(IMAGES_SIZES,
                            [crop |-> Undefined, fit |-> Undefined, auto |-> Undefined])
                ELSE IMAGES_SIZES,
     loading |-> "eager"]

-----------------------------------------------------------------------------
(* The initializeDropin callback (lines 138-207)                             *)

\* `!product?.sku` tested as `!product`.
MissingProduct_NullOnly(p) == ~Truthy(p)

\* !product?.sku
MissingProduct(p) == ~Truthy(Get(p, "sku"))

\* The argument the promise chain of line 150 hands to the middleware, had
\* the chain transformed the product first.
MiddlewareArgument_Transformed(fetched) == transformer(fetched).val

\* .then(preloadImageMiddleware): the middleware receives the value
\* fetchProductDataWithVideos resolved to.
MiddlewareArgument(fetched) == fetched

\* The second argument of initializers.mountImmediately (lines 160-206).
MountConfig(sk, opts, lbls, prod) ==
    [sku |-> sk,
     optionsUIDs |-> opts,
     langDefinitions |-> [default |-> Obj(FreshRef, FieldsOf(lbls))],
     models |-> [ProductDetails |->
                    [initialData |-> Obj(FreshRef, FieldsOf(prod)),
                     transformer |-> "transformer"]],
     acdl |-> TRUE,
     persistURLParams |-> TRUE]

-----------------------------------------------------------------------------
(* Arguments of the pure functions *)

MaxUrlTail == 4
MaxVideos == 2
MaxImages == 2
MaxMembers == 2

SeqsUpTo(S, n) == UNION {[1..k -> S] : k \in 0..n}

\* URL strings: a prefix followed by every string of up to MaxUrlTail characters.
UrlPrefixes ==
    { <<>>,
      <<"h", "t", "t", "p", "s", ":">>,
      <<"h", "t", "t", "p", "s", ":", "/", "/", "v", "i", "m", "e", "o", ".", "c", "o", "m">>,
      <<"x", ":">>,
      <<"x", ":", "/", "/", "v">> }
UrlTailChars == {"/", "1", "2", "v", ":", "?"}

\* The URL of the documentation comment (line 22).
DocUrl ==
    <<"h", "t", "t", "p", "s", ":", "/", "/", "v", "i", "m", "e", "o", ".", "c", "o", "m", "/",
      "1", "1", "5", "6", "8", "6", "0", "1", "9", "5", "?", "s", "h", "a", "r", "e", "=",
      "c", "o", "p", "y">>
DocVideoId == <<"1", "1", "5", "6", "8", "6", "0", "1", "9", "5">>

UrlInputs ==
    {Str(p \o b) : p \in UrlPrefixes, b \in SeqsUpTo(UrlTailChars, MaxUrlTail)}
    \cup {Str(DocUrl), Undefined, Null}

\* Videos and images of a raw product.
Demo == <<"D", "e", "m", "o">>
PreviewUrl == <<"/", "/", "x", "/", "p", ".", "j", "p", "g">>
Preview ==
    Obj("preview", [label |-> Str(Demo), roles |-> Arr("roles", <<>>),
                    url |-> Str(PreviewUrl)])
VideoInputs ==
    { Obj("video1", [url |-> Str(DocUrl), title |-> Str(Demo), preview |-> Preview]),
      Obj("video2", [url |-> Str(DocUrl), title |-> Str(<<>>), preview |-> Null]),
      Obj("video3", [url |-> Str(<<"n", "o", "t", " ", "a", " ", "u", "r", "l">>),
                     title |-> Null, preview |-> Null]),
      Obj("video4", [url |-> Str(<<"h", "t", "t", "p", "s", ":", "/", "/", "v", "/", "2">>),
                     title |-> Str(<<"T">>)]),
      Obj("video5", [url |-> Str(<<"h", "t", "t", "p", "s", ":", "/", "/", "v", "/", "c", "/", "2">>),
                     preview |-> Preview]),
      Obj("video6", [title |-> Str(Demo)]) }

ImgA == <<"h", "t", "t", "p", ":", "/", "/", "x", "/", "a", ".", "j", "p", "g">>
ImgB == <<"h", "t", "t", "p", "s", ":", "/", "/", "x", "/", "b", ".", "j", "p", "g">>
ImageInputs ==
    { Obj("imageA", [url |-> Str(ImgA)]),
      Obj("imageB", [url |-> Str(ImgB), label |-> Str(<<"B">>),
                     width |-> Num(960), height |-> Num(1191)]) }

SkuABC == <<"A", "B", "C", "1", "2", "3">>

\* A field map with field k set to v, or without field k when v is "absent".
WithField(f, k, v) ==
    IF v = [t |-> "absent"] THEN f ELSE Spread(f, [x \in {k} |-> v])

RawVideosValues ==
    {[t |-> "absent"], Null}
    \cup {Arr("videos", vs) : vs \in SeqsUpTo(VideoInputs, MaxVideos)}
RawImagesValues ==
    {[t |-> "absent"], Null}
    \cup {Arr("images", is) : is \in SeqsUpTo(ImageInputs, MaxImages)}

RawDataInputs ==
    {Undefined, Null}
    \cup { Obj("product",
               WithField(WithField([sku |-> Str(SkuABC)], "images", i), "videos", v)) :
             i \in RawImagesValues, v \in RawVideosValues }

\* JSON-LD texts: every object of up to MaxMembers members, whole, without its
\* last lexeme and without its first; a bare scalar; the empty text.
TypeKey == StrLex("@type", <<"@", "t", "y", "p", "e">>)
ImageKey == StrLex("image", <<"i", "m", "a", "g", "e">>)
ProductLex == StrLex("Product", ProductType)
OfferLex == StrLex("Offer", <<"O", "f", "f", "e", "r">>)
LdImage == <<"/", "l", "d", ".", "j", "p", "g">>
LdImageLex == StrLex("/ld.jpg", LdImage)

JsonMembers ==
    {<<k, Punct(":"), v>> : k \in {TypeKey, ImageKey},
                            v \in {ProductLex, OfferLex, LdImageLex, NullLex}}

RECURSIVE JoinMembers(_)
JoinMembers(ms) ==
    IF ms = <<>> THEN <<>>
    ELSE IF Len(ms) = 1 THEN ms[1]
    ELSE ms[1] \o <<Punct(",")>> \o JoinMembers(Tail(ms))

Serialize(ms) == <<Punct("{")>> \o JoinMembers(ms) \o <<Punct("}")>>

JsonTexts ==
    LET whole == {Serialize(ms) : ms \in SeqsUpTo(JsonMembers, MaxMembers)}
    IN  whole
        \cup {SubSeq(t, 1, Len(t) - 1) : t \in whole}
        \cup {Tail(t) : t \in whole}
        \cup {<<>>, <<ProductLex>>, <<NullLex>>}

OgImage == <<"/", "o", "g", ".", "j", "p", "g">>
MetaImage == <<"/", "m", ".", "j", "p", "g">>
MetaInputs ==
    { WithField(WithField(NoFields, "og:image", o), "image", i) :
        o \in {[t |-> "absent"], Str(OgImage)},
        i \in {[t |-> "absent"], Str(MetaImage)} }

ProductLdText ==
    Serialize(<<<<TypeKey, Punct(":"), ProductLex>>, <<ImageKey, Punct(":"), LdImageLex>>>>)

\* Pages: no JSON-LD script, one, or one followed by a product's.
DocInputs ==
    { [scripts |-> sc, meta |-> m] :
        sc \in {<<>>} \cup {<<t>> : t \in JsonTexts}
                      \cup {<<t, ProductLdText>> : t \in JsonTexts},
        m \in MetaInputs }

-----------------------------------------------------------------------------
(* SpecPure: one call of toVimeoEmbedUrl, of the transformer or of           *)
(* extractMainImageUrl on an argument drawn from the sets above.            *)

NotCalled == [done |-> FALSE]
Called(out) == [done |-> TRUE, out |-> out]

NoDoc == [scripts |-> <<>>, meta |-> NoFields]
NoEnv == [t |-> "none"]
NoMw == [called |-> FALSE]

\* The page machine before the script is imported.
PageIdle ==
    /\ pc = "idle"
    /\ trace = <<>>
    /\ doc = NoDoc
    /\ preloads = <<>>
    /\ env = NoEnv
    /\ sku = Undefined
    /\ optionsUIDs = Undefined
    /\ prodTask = [state |-> "notLaunched"]
    /\ phTask = [state |-> "notLaunched"]
    /\ settled = <<>>
    /\ mw = NoMw
    /\ product = Undefined
    /\ labels = Undefined
    /\ mounts = <<>>
    /\ errorPages = 0
    /\ transformed = <<>>

InitPure ==
    /\ \/ fn = "toVimeoEmbedUrl" /\ arg \in UrlInputs
       \/ fn = "transformer" /\ arg \in RawDataInputs
       \/ fn = "extractMainImageUrl" /\ arg \in DocInputs
    /\ ret = NotCalled
    /\ PageIdle

CallToVimeoEmbedUrl ==
    /\ fn = "toVimeoEmbedUrl" /\ ~ret.done
    /\ ret' = Called(toVimeoEmbedUrl(arg))
    /\ UNCHANGED <<fn, arg>>
    /\ UNCHANGED pageVars

CallTransformer ==
    /\ fn = "transformer" /\ ~ret.done
    /\ ret' = Called(transformer(arg))
    /\ UNCHANGED <<fn, arg>>
    /\ UNCHANGED pageVars

CallExtractMainImageUrl ==
    /\ fn = "extractMainImageUrl" /\ ~ret.done
    /\ ret' = Called(Return(extractMainImageUrl(arg)))
    /\ UNCHANGED <<fn, arg>>
    /\ UNCHANGED pageVars

NextPure ==
    \/ CallToVimeoEmbedUrl
    \/ CallTransformer
    \/ CallExtractMainImageUrl

SpecPure == InitPure /\ [][NextPure]_vars

-----------------------------------------------------------------------------
(* Claims about the pure functions, checked under SpecPure *)

\* The digit strings id such that path is "/"* id, followed by "/" or nothing:
\* the first non-empty segment of path when it is purely numeric.
NumericFirstSegments(path) ==
    { SubSeq(path, x[1] + 1, x[1] + x[2]) :
        x \in { y \in (0..Len(path)) \X (1..Len(path)) :
                  /\ y[1] + y[2] <= Len(path)
                  /\ \A j \in 1..y[1] : path[j] = "/"
                  /\ \A j \in (y[1] + 1)..(y[1] + y[2]) : path[j] \in Digits
                  /\ (y[1] + y[2] = Len(path) \/ path[y[1] + y[2] + 1] = "/") } }

\* C3: toVimeoEmbedUrl never throws; it returns
\* https://player.vimeo.com/video/<id> when the URL parses and the first
\* non-empty segment <id> of its path is all decimal digits, and its argument
\* unchanged in every other case (non-numeric segment, no segment, malformed).
C3_ToVimeoEmbedUrl ==
    (fn = "toVimeoEmbedUrl" /\ ret.done) =>
        LET url == ParseURL(ToStr(arg))
            ids == IF url.ok THEN NumericFirstSegments(url.pathname) ELSE {}
        IN  /\ ret.out.kind = "return"
            /\ ids # {} => \E id \in ids : ret.out.val = Str(PlayerPrefix \o id)
            /\ ids = {} => ret.out.val = arg

C3_Witness ==
    /\ fn = "toVimeoEmbedUrl" /\ ret.done
    /\ arg = Str(DocUrl)
    /\ ret.out = Return(Str(PlayerPrefix \o DocVideoId))

\* The videos (resp. images) of a raw product as a sequence; <<>> when the
\* field is absent or null.
VideosOf(raw) == ItemsOf(Get(raw, "videos"))
ImagesOf(raw) == ItemsOf(Get(raw, "images"))

\* entry is the gallery entry derived from video v: the player URL of the
\* video, its title (or the default label), 640 x 360, marked isVideo.
IsVideoDerived(entry, v) ==
    /\ entry.t = "object"
    /\ DOMAIN entry.f = {"url", "label", "width", "height", "isVideo"}
    /\ entry.f.url = toVimeoEmbedUrl(Get(v, "url")).val
    /\ entry.f.label = IF Truthy(Get(v, "title")) THEN v.f.title
                       ELSE Str(ProductVideoLabel)
    /\ entry.f.width = Num(640) /\ entry.f.height = Num(360)
    /\ entry.f.isVideo = Bool(TRUE)

\* C2: for a product with N >= 1 videos and M >= 0 images (no images field:
\* M = 0) the transformer's images have length N + M; entry i < N is the entry
\* derived from video i, entry N + j is original image j, unmodified.
C2_TransformerPrependsVideos ==
    (fn = "transformer" /\ ret.done /\ Len(VideosOf(arg)) >= 1) =>
        LET N == Len(VideosOf(arg))
            M == Len(ImagesOf(arg))
            out == ret.out.val.f.images
        IN  /\ ret.out.kind = "return"
            /\ out.t = "array"
            /\ Len(out.items) = N + M
            /\ \A i \in 1..N : IsVideoDerived(out.items[i], VideosOf(arg)[i])
            /\ \A j \in 1..M : out.items[N + j] = ImagesOf(arg)[j]

C2_Witness ==
    /\ fn = "transformer" /\ ret.done
    /\ Len(VideosOf(arg)) = 2 /\ Len(ImagesOf(arg)) = 2
    /\ VideosOf(arg)[1] # VideosOf(arg)[2]
    /\ ImagesOf(arg)[1] # ImagesOf(arg)[2]
    /\ Len(ret.out.val.f.images.items) = 4

\* C4: raw data that is null or undefined, or whose videos field is absent,
\* null or empty, comes back as the very same value: same identity, same
\* fields, same images array.
C4_TransformerPassThrough ==
    (fn = "transformer" /\ ret.done /\ VideosOf(arg) = <<>>) =>
        ret.out = Return(arg)

C4_Witness ==
    /\ fn = "transformer" /\ ret.done
    /\ Get(arg, "videos") = Arr("videos", <<>>)
    /\ Len(ImagesOf(arg)) = 2
    /\ ret.out.val.ref = "product"

\* The metadata fallback: og:image if the page has it, else image, else null.
MetaFallback(d) ==
    IF "og:image" \in DOMAIN d.meta THEN d.meta["og:image"]
    ELSE IF "image" \in DOMAIN d.meta THEN d.meta["image"]
    ELSE Null

\* The page's first JSON-LD script parses to an object of @type "Product".
IsProductLd(d) ==
    /\ d.scripts # <<>>
    /\ ParseJSON(d.scripts[1]).ok
    /\ Get(ParseJSON(d.scripts[1]).val, "@type") = Str(ProductType)

LdObject(d) == ParseJSON(d.scripts[1]).val

\* C6 as claimed: the JSON-LD image value whenever the JSON-LD is a Product
\* with an image field, the metadata fallback in every other case.
C6_AsClaimed ==
    (fn = "extractMainImageUrl" /\ ret.done) =>
        IF IsProductLd(arg) /\ "image" \in DOMAIN LdObject(arg).f
        THEN ret.out.val = LdObject(arg).f.image
        ELSE ret.out.val = MetaFallback(arg)

\* C6, amended: the JSON-LD image value when the JSON-LD is a Product whose
\* image field is truthy (neither null nor empty); the metadata fallback
\* (og:image, else image, else null) in every other case.
C6_ExtractMainImageUrl ==
    (fn = "extractMainImageUrl" /\ ret.done) =>
        IF IsProductLd(arg) /\ Truthy(Get(LdObject(arg), "image"))
        THEN ret.out.val = LdObject(arg).f.image
        ELSE ret.out.val = MetaFallback(arg)

C6_Witness ==
    /\ fn = "extractMainImageUrl" /\ ret.done
    /\ arg.scripts = <<ProductLdText>>
    /\ "og:image" \in DOMAIN arg.meta
    /\ ret.out.val = Str(LdImage)

-----------------------------------------------------------------------------
(* Spec: one page load.  The page, the URL and the collaborators' answers    *)
(* are drawn in Init; the callback then runs statement by statement.  A      *)
(* promise callback runs only while the callback is suspended or finished    *)
(* (run to completion).                                                      *)

SkuXYZ == <<"X", "Y", "Z">>

PageImagesValues ==
    { [t |-> "absent"],
      Arr("images", <<>>),
      Arr("images", <<Obj("imageN", [label |-> Str(<<"N">>)])>>),
      Arr("images", <<Obj("imageA", [url |-> Str(ImgA)])>>),
      Arr("images", <<Obj("imageB", [url |-> Str(ImgB)]), Obj("imageA", [url |-> Str(ImgA)])>>),
      Arr("images", <<Obj("imageS", [url |-> Str(HttpsScheme)])>>),
      Arr("images", <<Obj("imageE", [url |-> Str(<<>>)])>>),
      Arr("images", <<Obj("imageR", [url |-> Str(<<"/", "/", "x", "/", "r", ".", "j", "p", "g">>)])>>) }

PageVideosValues ==
    { [t |-> "absent"],
      Arr("videos", <<>>),
      Arr("videos", <<Obj("video1", [url |-> Str(DocUrl), title |-> Str(Demo),
                                     preview |-> Preview])>>) }

PageSkuValues == {[t |-> "absent"], Str(<<>>), Str(SkuABC), Str(SkuXYZ)}

PageProducts ==
    { Obj("product",
          WithField(WithField(WithField(NoFields, "sku", k), "images", i), "videos", v)) :
        k \in PageSkuValues, i \in PageImagesValues, v \in PageVideosValues }

\* What fetchGraphQl resolves to.
Responses ==
    {Undefined,
     Obj("response", [errors |-> Arr("errors", <<>>)]),
     Obj("response", [data |-> Null]),
     Obj("response", [data |-> Obj("data", [products |-> Null])]),
     Obj("response", [data |-> Obj("data", [products |-> Arr("products", <<>>)])])}
    \cup {Obj("response", [data |-> Obj("data", [products |-> Arr("products", <<q>>)])]) :
            q \in PageProducts}

Settlements(values) == {[ok |-> FALSE]} \cup {[ok |-> TRUE, value |-> v] : v \in values}

Placeholders ==
    { Obj("placeholders", [Title |-> Str(<<"T">>)]), Obj("placeholders", NoFields) }

\* getOptionsUIDsFromUrl() of ../commerce.js: undefined when the URL names no
\* option, else the array of the UIDs it names.
OptionsFromUrl == {Undefined, Arr("uids", <<Str(<<"u", "1">>)>>)}

PageEnvs ==
    [ urlSku : {Str(SkuABC)},
      urlOptions : OptionsFromUrl,
      aemEnabled : BOOLEAN,
      gql : Settlements(Responses),
      placeholders : Settlements(Placeholders) ]

PageDocs ==
    { NoDoc,
      [scripts |-> <<ProductLdText>>, meta |-> [image |-> Str(MetaImage)]],
      [scripts |-> <<>>, meta |-> [image |-> Str(MetaImage)]] }

Init ==
    /\ fn = "none" /\ arg = Undefined /\ ret = NotCalled
    /\ pc = "start"
    /\ trace = <<>>
    /\ doc \in PageDocs
    /\ preloads = <<>>
    /\ env \in PageEnvs
    /\ sku = Undefined
    /\ optionsUIDs = Undefined
    /\ prodTask = [state |-> "notLaunched"]
    /\ phTask = [state |-> "notLaunched"]
    /\ settled = <<>>
    /\ mw = NoMw
    /\ product = Undefined
    /\ labels = Undefined
    /\ mounts = <<>>
    /\ errorPages = 0
    /\ transformed = <<>>

\* The callback is suspended at its await, or has finished.
AtRest == pc \in {"awaiting", "rejected", "errorPage", "mounted"}

\* line 140: setEndpoint(CS_FETCH_GRAPHQL)
setEndpoint ==
    /\ pc = "start"
    /\ trace' = Append(trace, "setEndpoint")
    /\ pc' = "preload"
    /\ UNCHANGED <<doc, preloads, env, sku, optionsUIDs, prodTask, phTask, settled,
                   mw, product, labels, mounts, errorPages, transformed>>
    /\ UNCHANGED pureVars

\* preloadPDPAssets() called when the module is imported, before the callback.
preloadPDPAssets_AtImport ==
    /\ pc = "start" /\ preloads = <<>>
    /\ preloads' = PreloadCalls(doc)
    /\ trace' = trace \o [i \in DOMAIN PreloadCalls(doc) |-> "preloadFile"]
    /\ UNCHANGED <<pc, doc, env, sku, optionsUIDs, prodTask, phTask, settled,
                   mw, product, labels, mounts, errorPages, transformed>>
    /\ UNCHANGED pureVars

\* line 143: preloadPDPAssets()
preloadPDPAssets ==
    /\ pc = "preload"
    /\ preloads' = preloads \o PreloadCalls(doc)
    /\ trace' = trace \o [i \in DOMAIN PreloadCalls(doc) |-> "preloadFile"]
    /\ pc' = "resolve"
    /\ UNCHANGED <<doc, env, sku, optionsUIDs, prodTask, phTask, settled,
                   mw, product, labels, mounts, errorPages, transformed>>
    /\ UNCHANGED pureVars

\* lines 146-147: sku = getProductSku(); optionsUIDs = getOptionsUIDsFromUrl()
ResolveUrl ==
    /\ pc = "resolve"
    /\ sku' = env.urlSku
    /\ optionsUIDs' = env.urlOptions
    /\ pc' = "launchProduct"
    /\ UNCHANGED <<trace, doc, preloads, env, prodTask, phTask, settled,
                   mw, product, labels, mounts, errorPages, transformed>>
    /\ UNCHANGED pureVars

\* line 150: fetchProductDataWithVideos(sku, { optionsUIDs }) runs to its await
\* of fetchGraphQl; .then(preloadImageMiddleware) is attached.
LaunchProductFetch ==
    /\ pc = "launchProduct"
    /\ trace' = Append(trace, "fetchGraphQl")
    /\ prodTask' = [state |-> "fetching"]
    /\ pc' = "launchPlaceholders"
    /\ UNCHANGED <<doc, preloads, env, sku, optionsUIDs, phTask, settled,
                   mw, product, labels, mounts, errorPages, transformed>>
    /\ UNCHANGED pureVars

\* lines 151-152, 149: fetchPlaceholders('placeholders/pdp.json'), then
\* await Promise.all([...]).
LaunchPlaceholders ==
    /\ pc = "launchPlaceholders"
    /\ trace' = Append(trace, "fetchPlaceholders")
    /\ phTask' = [state |-> "fetching"]
    /\ pc' = "awaiting"
    /\ UNCHANGED <<doc, preloads, env, sku, optionsUIDs, prodTask, settled,
                   mw, product, labels, mounts, errorPages, transformed>>
    /\ UNCHANGED pureVars

\* fetchGraphQl resolves: lines 64-77 run.  A throw there rejects the promise.
GraphQlResolves ==
    /\ AtRest
    /\ prodTask.state = "fetching" /\ env.gql.ok
    /\ LET r == fetchProductDataWithVideos(
                    env.gql.value, Obj(FreshRef, [optionsUIDs |-> optionsUIDs]))
       IN  /\ prodTask' = IF r.kind = "throw" THEN [state |-> "rejected"]
                          ELSE [state |-> "fetched", value |-> r.val]
           /\ settled' = IF r.kind = "throw" THEN Append(settled, "product")
                         ELSE settled
    /\ UNCHANGED <<pc, trace, doc, preloads, env, sku, optionsUIDs, phTask,
                   mw, product, labels, mounts, errorPages, transformed>>
    /\ UNCHANGED pureVars

\* fetchGraphQl rejects: so does fetchProductDataWithVideos, and the chain.
GraphQlRejects ==
    /\ AtRest
    /\ prodTask.state = "fetching" /\ ~env.gql.ok
    /\ prodTask' = [state |-> "rejected"]
    /\ settled' = Append(settled, "product")
    /\ UNCHANGED <<pc, trace, doc, preloads, env, sku, optionsUIDs, phTask,
                   mw, product, labels, mounts, errorPages, transformed>>
    /\ UNCHANGED pureVars

\* lines 209-233: preloadImageMiddleware(data) up to its await of UI.render,
\* or to its return when there is no image to render.
preloadImageMiddleware ==
    /\ AtRest
    /\ prodTask.state = "fetched"
    /\ LET data == MiddlewareArgument(prodTask.value)
           image == StripScheme(Get(FirstImage(data), "url"))
       IN  /\ mw' = [called |-> TRUE,
                     input |-> data,
                     inspected |-> FirstImage(data),
                     renders |-> IF Truthy(image)
                                 THEN <<RenderProps(image, data, env.aemEnabled)>>
                                 ELSE <<>>,
                     transformsBefore |-> Len(transformed)]
           /\ trace' = IF Truthy(image) THEN Append(trace, "render") ELSE trace
           /\ prodTask' = IF Truthy(image) THEN [state |-> "rendering", value |-> data]
                          ELSE [state |-> "fulfilled", value |-> data]
           /\ settled' = IF Truthy(image) THEN settled ELSE Append(settled, "product")
    /\ UNCHANGED <<pc, doc, preloads, env, sku, optionsUIDs, phTask,
                   product, labels, mounts, errorPages, transformed>>
    /\ UNCHANGED pureVars

\* line 233: UI.render(...) has resolved; the middleware returns data.
preloadImageMiddleware_Return ==
    /\ AtRest
    /\ prodTask.state = "rendering"
    /\ prodTask' = [state |-> "fulfilled", value |-> prodTask.value]
    /\ settled' = Append(settled, "product")
    /\ UNCHANGED <<pc, trace, doc, preloads, env, sku, optionsUIDs, phTask,
                   mw, product, labels, mounts, errorPages, transformed>>
    /\ UNCHANGED pureVars

\* fetchPlaceholders settles.
PlaceholdersSettle ==
    /\ AtRest
    /\ phTask.state = "fetching"
    /\ phTask' = IF env.placeholders.ok
                 THEN [state |-> "fulfilled", value |-> env.placeholders.value]
                 ELSE [state |-> "rejected"]
    /\ settled' = Append(settled, "placeholders")
    /\ UNCHANGED <<pc, trace, doc, preloads, env, sku, optionsUIDs, prodTask,
                   mw, product, labels, mounts, errorPages, transformed>>
    /\ UNCHANGED pureVars

\* Promise.all that waits for both promises to settle and goes on with the
\* fulfilled values (undefined for a rejected one), as Promise.allSettled would.
JoinFulfilled_AllSettled ==
    /\ pc = "awaiting"
    /\ prodTask.state \in {"fulfilled", "rejected"}
    /\ phTask.state \in {"fulfilled", "rejected"}
    /\ product' = IF prodTask.state = "fulfilled" THEN prodTask.value ELSE Undefined
    /\ labels' = IF phTask.state = "fulfilled" THEN phTask.value ELSE Undefined
    /\ pc' = "branch"
    /\ UNCHANGED <<trace, doc, preloads, env, sku, optionsUIDs, prodTask, phTask,
                   settled, mw, mounts, errorPages, transformed>>
    /\ UNCHANGED pureVars

\* line 149: Promise.all fulfils once both promises have; the callback resumes
\* with [product, labels].
JoinFulfilled ==
    /\ pc = "awaiting"
    /\ prodTask.state = "fulfilled" /\ phTask.state = "fulfilled"
    /\ product' = prodTask.value
    /\ labels' = phTask.value
    /\ pc' = "branch"
    /\ UNCHANGED <<trace, doc, preloads, env, sku, optionsUIDs, prodTask, phTask,
                   settled, mw, mounts, errorPages, transformed>>
    /\ UNCHANGED pureVars

\* line 149: Promise.all rejects as soon as one promise has; the await throws
\* and the callback's promise rejects.
JoinRejected ==
    /\ pc = "awaiting"
    /\ prodTask.state = "rejected" \/ phTask.state = "rejected"
    /\ pc' = "rejected"
    /\ UNCHANGED <<trace, doc, preloads, env, sku, optionsUIDs, prodTask, phTask,
                   settled, mw, product, labels, mounts, errorPages, transformed>>
    /\ UNCHANGED pureVars

\* lines 156-158: if (!product?.sku) return loadErrorPage();
BranchOnProduct ==
    /\ pc = "branch"
    /\ trace' = IF MissingProduct(product)
                THEN trace \o <<"branch", "loadErrorPage">>
                ELSE Append(trace, "branch")
    /\ errorPages' = IF MissingProduct(product) THEN errorPages + 1 ELSE errorPages
    /\ pc' = IF MissingProduct(product) THEN "errorPage" ELSE "mount"
    /\ UNCHANGED <<doc, preloads, env, sku, optionsUIDs, prodTask, phTask, settled,
                   mw, product, labels, mounts, transformed>>
    /\ UNCHANGED pureVars

\* lines 160-206: build langDefinitions and models, call mountImmediately.
mountImmediately ==
    /\ pc = "mount"
    /\ mounts' = Append(mounts, MountConfig(sku, optionsUIDs, labels, product))
    /\ trace' = Append(trace, "mount")
    /\ pc' = "mounted"
    /\ UNCHANGED <<doc, preloads, env, sku, optionsUIDs, prodTask, phTask, settled,
                   mw, product, labels, errorPages, transformed>>
    /\ UNCHANGED pureVars

\* The framework, once mounted, runs models.ProductDetails.transformer on the
\* initial data it was handed.
FrameworkTransform ==
    /\ pc = "mounted" /\ transformed = <<>>
    /\ transformed' =
          <<transformer(mounts[1].models.ProductDetails.initialData)>>
    /\ trace' = Append(trace, "transformer")
    /\ UNCHANGED <<pc, doc, preloads, env, sku, optionsUIDs, prodTask, phTask, settled,
                   mw, product, labels, mounts, errorPages>>
    /\ UNCHANGED pureVars

Next ==
    \/ setEndpoint
    \/ preloadPDPAssets
    \/ ResolveUrl
    \/ LaunchProductFetch
    \/ LaunchPlaceholders
    \/ GraphQlResolves
    \/ GraphQlRejects
    \/ preloadImageMiddleware
    \/ preloadImageMiddleware_Return
    \/ PlaceholdersSettle
    \/ JoinFulfilled
    \/ JoinRejected
    \/ BranchOnProduct
    \/ mountImmediately
    \/ FrameworkTransform

Spec == Init /\ [][Next]_vars

-----------------------------------------------------------------------------
(* Claims about the page load, checked under Spec *)

\* The product record of the GraphQL response, undefined when it has none.
RawProduct ==
    IF env.gql.ok THEN At(Get(Get(env.gql.value, "data"), "products"), 0)
    ELSE Undefined

BothFulfilled == prodTask.state = "fulfilled" /\ phTask.state = "fulfilled"
EitherRejected == prodTask.state = "rejected" \/ phTask.state = "rejected"

\* v is no product, or a product without a non-empty sku.
LacksSku(v) ==
    \/ v.t # "object"
    \/ "sku" \notin DOMAIN v.f
    \/ v.f.sku \in {Undefined, Null, Str(<<>>)}

Occurrences(e) == {i \in 1..Len(trace) : trace[i] = e}

\* C1: in every run in which the product promise and the placeholder promise
\* both resolve, exactly one of mountImmediately and loadErrorPage is invoked,
\* once: loadErrorPage (and never mount) when the fetched product is null or
\* has no non-empty sku, mountImmediately (and never loadErrorPage) otherwise.
C1_ExactlyOneOutcome ==
    /\ Len(mounts) + errorPages <= 1
    /\ Cardinality(Occurrences("mount")) = Len(mounts)
    /\ Cardinality(Occurrences("loadErrorPage")) = errorPages
    /\ errorPages = 1 => BothFulfilled /\ LacksSku(prodTask.value)
    /\ mounts # <<>> => BothFulfilled /\ ~LacksSku(prodTask.value)
    \* once both have resolved the callback goes on until one of the two is made
    /\ (BothFulfilled /\ Len(mounts) + errorPages = 0) =>
          ENABLED (JoinFulfilled \/ BranchOnProduct \/ mountImmediately)


C1_Witness ==
    /\ pc = "errorPage" /\ errorPages = 1 /\ mounts = <<>>
    /\ prodTask.state = "fulfilled" /\ prodTask.value = Null

\* C5: on the success outcome mount is invoked once, with the sku resolved
\* from the URL and with initial data that holds exactly the fetched product's
\* fields with their fetched values (plus optionUIDs when the URL names
\* options; nothing added when it names none); the transformer is attached,
\* not applied.
C5_MountConfiguration ==
    mounts # <<>> =>
        LET cfg == mounts[1]
            init == cfg.models.ProductDetails.initialData
            added == IF env.urlOptions = Undefined THEN {} ELSE {"optionUIDs"}
        IN  /\ Len(mounts) = 1
            /\ ~LacksSku(RawProduct)
            /\ cfg.sku = env.urlSku
            /\ cfg.optionsUIDs = env.urlOptions
            /\ init.t = "object"
            /\ DOMAIN init.f = DOMAIN RawProduct.f \cup added
            /\ \A k \in DOMAIN RawProduct.f \ added : init.f[k] = RawProduct.f[k]
            /\ \A k \in added : init.f[k] = env.urlOptions
            /\ cfg.models.ProductDetails.transformer = "transformer"

C5_Witness ==
    /\ pc = "mounted" /\ Len(mounts) = 1
    /\ env.urlOptions = Undefined
    /\ mounts[1].sku = Str(SkuABC)
    /\ mounts[1].models.ProductDetails.initialData.f =
          [sku |-> Str(SkuABC),
           images |-> Arr("images", <<Obj("imageA", [url |-> Str(ImgA)])>>),
           videos |-> Arr("videos", <<>>)]

\* C7: the product promise (fetch chained with the middleware) and the
\* placeholder fetch are both launched before either is awaited; the callback
\* takes its branch only after both have completed, in whichever order; if
\* either rejects, the initialization rejects and neither mount nor the
\* error-page redirect is invoked, whatever the other does.
C7_JoinedFetches ==
    \* both are launched before the callback awaits, and before either settles
    /\ (AtRest \/ settled # <<>>) =>
          prodTask.state # "notLaunched" /\ phTask.state # "notLaunched"
    \* the branch is taken only after both have completed
    /\ pc \in {"branch", "mount", "mounted", "errorPage"} => BothFulfilled
    /\ Occurrences("branch") # {} => BothFulfilled
    \* a rejection: no branch, no mount, no error page
    /\ EitherRejected =>
          /\ pc \in {"awaiting", "rejected"}
          /\ mounts = <<>> /\ errorPages = 0
          /\ pc = "awaiting" => ENABLED JoinRejected /\ ~ENABLED JoinFulfilled
    /\ pc = "rejected" => EitherRejected

C7_Witness ==
    /\ pc = "branch"
    /\ settled = <<"placeholders", "product">>
    /\ mw.called /\ mw.renders # <<>>

Rank(e) ==
    CASE e = "setEndpoint" -> 1
      [] e = "preloadFile" -> 2
      [] e \in {"fetchGraphQl", "fetchPlaceholders"} -> 3
      [] e \in {"branch", "loadErrorPage"} -> 4
      [] e = "mount" -> 5
      [] OTHER -> 0

\* C8: setEndpoint precedes every preload hint; every preload hint precedes
\* both fetches; both fetches precede the branch; mount follows the branch.
\* No GraphQL request is issued before the endpoint is configured.
C8_ExecutionOrder ==
    /\ \A i, j \in 1..Len(trace) :
          (i < j /\ Rank(trace[i]) # 0 /\ Rank(trace[j]) # 0) =>
              Rank(trace[i]) <= Rank(trace[j])
    /\ \A e \in {"preloadFile", "fetchGraphQl", "fetchPlaceholders"} :
          Occurrences(e) # {} => Cardinality(Occurrences("setEndpoint")) = 1
    /\ (Occurrences("fetchGraphQl") # {} \/ Occurrences("fetchPlaceholders") # {}) =>
          /\ Cardinality(Occurrences("preloadFile")) = Len(preloads)
          /\ Len(preloads) \in {Len(ScriptPaths), Len(ScriptPaths) + 1}
          /\ \A i \in DOMAIN ScriptPaths : preloads[i].href = Str(ScriptPaths[i])
          /\ Len(preloads) > Len(ScriptPaths) <=> Truthy(extractMainImageUrl(doc))
    /\ Occurrences("branch") # {} =>
          Occurrences("fetchGraphQl") # {} /\ Occurrences("fetchPlaceholders") # {}
    /\ Occurrences("mount") # {} => Occurrences("branch") # {}

C8_Witness ==
    /\ pc = "mounted"
    /\ Len(preloads) = Len(ScriptPaths) + 1
    /\ preloads[Len(preloads)] = [href |-> Str(LdImage), as |-> "image"]

\* C9 as claimed: when the product has videos, the entry the middleware looks
\* at is the first entry of the transformed images (a video-derived entry).
C9_AsClaimed ==
    (mw.called /\ VideosOf(RawProduct) # <<>>) =>
        mw.inspected = At(Get(transformer(RawProduct).val, "images"), 0)

\* C9, amended: the middleware looks at the first entry of the images of the
\* product as fetched, before any transform has run (the transformer only runs
\* later, in the framework, after mount); the entry it looks at and renders is
\* never a video-derived entry.
C9_MiddlewareSeesFetchedImage ==
    mw.called =>
        /\ mw.transformsBefore = 0
        /\ mw.inspected = At(Get(RawProduct, "images"), 0)
        /\ Get(mw.inspected, "isVideo") = Undefined
        /\ \A i \in DOMAIN mw.renders :
              LET src == mw.renders[i].src
              IN  (IF env.aemEnabled THEN src.optimizedUrlOf ELSE src)
                      = StripScheme(Get(At(Get(RawProduct, "images"), 0), "url"))

C9_Witness ==
    /\ mw.called /\ mw.renders # <<>>
    /\ VideosOf(RawProduct) # <<>>
    /\ mw.inspected = Obj("imageA", [url |-> Str(ImgA)])
    /\ transformed # <<>>
    /\ Get(At(Get(transformed[1].val, "images"), 0), "isVideo") = Bool(TRUE)

\* The stripped url of the first image is non-empty: the url is a string other
\* than "", "http:" and "https:".
ExpectRender(data) ==
    LET url == Get(At(Get(data, "images"), 0), "url")
    IN  url.t = "string" /\ url.s \notin {<<>>, HttpScheme, HttpsScheme}

\* C10: the middleware resolves to the data it was given, unchanged, for every
\* input (null, no images, first image without url, first image with url); it
\* triggers one eager render exactly when the first image's url, stripped of a
\* leading http: or https:, is non-empty, and none otherwise.
C10_MiddlewareFrame ==
    /\ Cardinality(Occurrences("render")) = IF mw.called THEN Len(mw.renders) ELSE 0
    /\ mw.called =>
          /\ prodTask.state \in {"rendering", "fulfilled"}
          /\ prodTask.value = mw.input
          /\ mw.input = fetchProductDataWithVideos(
                            env.gql.value, Obj(FreshRef, [optionsUIDs |-> optionsUIDs])).val
          /\ Len(mw.renders) = IF ExpectRender(mw.input) THEN 1 ELSE 0
          /\ \A i \in DOMAIN mw.renders : mw.renders[i].loading = "eager"
          /\ prodTask.state = "rendering" => mw.renders # <<>>

C10_Witness ==
    /\ prodTask.state = "fulfilled" /\ mw.called
    /\ mw.renders # <<>>
    /\ mw.inspected = Obj("imageB", [url |-> Str(ImgB)])
    /\ prodTask.value = mw.input

=============================================================================
